---- MODULE Spec2Model ----
(***************************************************************************)
(* Session registry, bounded message queue and script execution protocol   *)
(* of frida-mcp (state.py, tools/session_tools.py, tools/lifecycle_tools). *)
(* Caller threads run the tool calls statement by statement; the script    *)
(* engine delivers script events and detach notifications on its own       *)
(* callback threads.                                                       *)
(***************************************************************************)
EXTENDS Integers, Sequences, FiniteSets, TLC

\* ---------------------------------------------------------------- bounds
MaxSessions == 1      \* sessions attach may create
MaxCalls    == 3      \* tool calls started in one behaviour
MaxScripts  == 2      \* scripts create_script may hand out
MaxEvents   == 2      \* events the scripts emit in one behaviour
MaxNotify   == 2      \* detach notifications delivered per session
MaxAppends  == 1003   \* appends of one run of the queue store (SpecQueue)

\* ------------------------------------------------------- program constants
MAX_MESSAGES == 1000

Callers    == {1, 2}
SessionIds == 1..MaxSessions
Reasons    == {"process-terminated", "application-requested"}
EventKinds == {"receipt_ok", "receipt_err", "error", "send"}

VARIABLES
    sessions,            \* state._sessions: id -> handle
    session_meta,        \* state._session_meta: id -> metadata
    script_messages,     \* state._script_messages: id -> queue
    message_locks,       \* state._message_locks: id -> lock
    persistent_scripts,  \* state._persistent_scripts: id -> list of scripts
    lock_held,           \* the threading.Lock objects, by the id they were made for
    engine,              \* the target runtime's sessions (frida session objects)
    scripts,             \* the script engine's scripts, with the closure of their callback
    callers,             \* each caller thread's position and locals
    ret,                 \* what each caller's finished call returned or raised
    ncalls,              \* tool calls started
    appended,            \* history: messages appended to each session's queue
    drained,             \* history: messages returned by drains of each session
    first_reason,        \* history: reason of the first mark_detached of each session
    attempted            \* history: engine operations tried by teardown

vars == <<sessions, session_meta, script_messages, message_locks, persistent_scripts,
          lock_held, engine, scripts, callers, ret, ncalls, appended, drained,
          first_reason, attempted>>

regVars  == <<sessions, session_meta, script_messages, message_locks, persistent_scripts>>
histVars == <<appended, drained, first_reason, attempted>>

\* ---------------------------------------------------------------- helpers
Put(d, k, v) == [x \in DOMAIN d \cup {k} |-> IF x = k THEN v ELSE d[x]]
Pop(d, k)    == [x \in DOMAIN d \ {k} |-> d[x]]
EmptyDict    == [x \in {} |-> 0]

NoResult ==
    [kind |-> "none", exc |-> "", status |-> "", error |-> "", reason |-> "",
     script_unloaded |-> "unset", resumed |-> "unset", resume_error |-> "",
     suspended |-> "unset",
     session_id |-> 0, messages |-> <<>>, count |-> 0]

Returned(fields) == [f \in DOMAIN NoResult |->
                        IF f \in DOMAIN fields THEN fields[f]
                        ELSE IF f = "kind" THEN "return" ELSE NoResult[f]]
Raised(exc, reason) == [NoResult EXCEPT !.kind = "raise", !.exc = exc, !.reason = reason]

IdleCaller ==
    [pc |-> "idle", op |-> "none", sid |-> 0, keep_alive |-> FALSE,
     resume_after |-> FALSE, unload_only |-> FALSE, is_spawn |-> FALSE,
     has_script |-> FALSE, script |-> 0, absent |-> FALSE, scripts |-> <<>>,
     count |-> 0, messages |-> <<>>, handle |-> 0, final |-> NoResult,
     resolved |-> FALSE, was_detached |-> FALSE, died_in_wait |-> FALSE,
     popped |-> <<>>]

\* ---------------------------------------------------------- state.py (pure)
\* append_message, lines 84-87: queue.append(msg), then del queue[:overflow]
AppendTrimDropNewest(queue, msg) ==
    LET q == Append(queue, msg)
    IN  IF Len(q) > MAX_MESSAGES THEN SubSeq(q, 1, MAX_MESSAGES) ELSE q

AppendTrim(queue, msg) ==
    LET q == Append(queue, msg)
        overflow == Len(q) - MAX_MESSAGES
    IN  IF Len(q) > MAX_MESSAGES THEN SubSeq(q, overflow + 1, Len(q)) ELSE q

\* create_session: the four stores
create_session(sid, handle, pid, device_id) ==
    /\ sessions' = Put(sessions, sid, handle)
    /\ session_meta' = Put(session_meta, sid,
            [pid |-> pid, device_id |-> device_id, detached |-> FALSE,
             detach_reason |-> "None"])
    /\ script_messages' = Put(script_messages, sid, <<>>)
    /\ message_locks' = Put(message_locks, sid, sid)

\* mark_detached: the metadata after the call
mark_detached(meta, sid, reason) ==
    IF sid \in DOMAIN meta
    THEN [meta EXCEPT ![sid].detached = TRUE, ![sid].detach_reason = reason]
    ELSE meta

\* ------------------------------------------------------------------- Init
Init ==
    /\ sessions = EmptyDict
    /\ session_meta = EmptyDict
    /\ script_messages = EmptyDict
    /\ message_locks = EmptyDict
    /\ persistent_scripts = EmptyDict
    /\ lock_held = [s \in SessionIds |-> FALSE]
    /\ engine = <<>>
    /\ scripts = <<>>
    /\ callers = [c \in Callers |-> IdleCaller]
    /\ ret = [c \in Callers |-> NoResult]
    /\ ncalls = 0
    /\ appended = [s \in SessionIds |-> <<>>]
    /\ drained = [s \in SessionIds |-> <<>>]
    /\ first_reason = [s \in SessionIds |-> "None"]
    /\ attempted = {}

\* A call ends: its result is published and the thread waits to be reused.
Finish(c, result) ==
    /\ callers' = [callers EXCEPT ![c] = [IdleCaller EXCEPT !.pc = "done",
                        !.op = callers[c].op, !.sid = callers[c].sid,
                        !.keep_alive = callers[c].keep_alive,
                        !.unload_only = callers[c].unload_only,
                        !.script = callers[c].script,
                        !.resolved = callers[c].resolved,
                        !.was_detached = callers[c].was_detached,
                        !.died_in_wait = callers[c].died_in_wait,
                        !.popped = callers[c].popped, !.handle = callers[c].handle]]
    /\ ret' = [ret EXCEPT ![c] = result]

Goto(c, pc) == callers' = [callers EXCEPT ![c].pc = pc]

\* ------------------------------------------------- the opaque script engine
NewSession(spawned) ==
    [state |-> "attached", handler |-> FALSE, notified |-> 0,
     spawned |-> spawned, suspended |-> spawned]

NewScript(handle, sid, keep_alive) ==
    [session |-> handle, sid |-> sid, keep_alive |-> keep_alive, state |-> "created",
     listening |-> TRUE, emitted |-> 0, event_set |-> FALSE, results |-> <<>>,
     cbpc |-> "idle", cbmsg |-> <<>>, cb_failed |-> FALSE,
     hist |-> <<>>]       \* history: the kinds of the events emitted, in order

\* An engine operation on a session that is gone is rejected (InvalidOperationError).
Gone(handle) == engine[handle].state # "attached"

\* Calls that have still to create their script.
PendingCreates ==
    Cardinality({c \in Callers :
        \/ callers[c].pc \in {"e_get1", "e_get2", "e_get3", "e_meta", "e_create"}
        \/ callers[c].pc = "a_create" /\ callers[c].has_script})

\* A thread is free before its first call and once its call has ended.
Free(c) == callers[c].pc \in {"idle", "done"}

\* The front end hands a new call to the first free thread.
Start(c, fields) ==
    /\ Free(c)
    /\ \A d \in Callers : d < c => ~Free(d)
    /\ ncalls < MaxCalls
    /\ ncalls' = ncalls + 1
    /\ callers' = [callers EXCEPT ![c] =
            [f \in DOMAIN IdleCaller |->
                IF f \in DOMAIN fields THEN fields[f] ELSE IdleCaller[f]]]
    /\ ret' = [ret EXCEPT ![c] = NoResult]

\* ------------------------------------------- lifecycle_tools.attach (59-107)
\* What attach returns around the initial script's execution (lines 79-87, 106-107).
AttachResult(me, result) ==
    IF result.kind = "raise"
    THEN Returned([status |-> "error", error |-> "exception"])
    ELSE [result EXCEPT !.session_id = me.sid,
              !.suspended = IF me.is_spawn /\ result.status # "success"
                            THEN "True" ELSE "False"]

EndCall(c, result) ==
    Finish(c, IF callers[c].op = "attach" THEN AttachResult(callers[c], result)
              ELSE result)

\* lines 60-73: resolve_device, then device.attach(pid) or device.spawn + attach
AttachTarget(c) ==
    /\ Len(engine) < MaxSessions
    /\ \E target \in {"pid", "bundle"}, has_script \in BOOLEAN :
          /\ has_script => Len(scripts) + PendingCreates < MaxScripts
          /\ Start(c, [pc |-> "a_create", op |-> "attach",
                       is_spawn |-> (target = "bundle"), has_script |-> has_script,
                       handle |-> Len(engine) + 1])
          /\ engine' = Append(engine, NewSession(target = "bundle"))
    /\ UNCHANGED <<regVars, lock_held, scripts, histVars>>

\* lines 60-73 raising, line 107: the target runtime rejects resolve_device, attach
\* or spawn
AttachRejected(c) ==
    /\ Start(c, [pc |-> "a_failed", op |-> "attach"])
    /\ UNCHANGED <<regVars, lock_held, engine, scripts, histVars>>

AttachFailed(c) ==
    /\ callers[c].pc = "a_failed"
    /\ Finish(c, Returned([status |-> "error", error |-> "exception"]))
    /\ UNCHANGED <<regVars, lock_held, engine, scripts, ncalls, histVars>>

AttachCreateAlwaysResumes(c) ==
    LET me == callers[c]
        sid == me.handle
    IN
    /\ me.pc = "a_create"
    /\ create_session(sid, me.handle, sid, "None")
    /\ engine' = [engine EXCEPT ![me.handle].handler = TRUE]
    /\ IF me.has_script
       THEN /\ callers' = [callers EXCEPT ![c].pc = "e_get1", ![c].sid = sid,
                              ![c].keep_alive = TRUE, ![c].resume_after = TRUE]
            /\ ret' = ret
       ELSE /\ callers' = [callers EXCEPT ![c] = [IdleCaller EXCEPT !.pc = "done",
                              !.op = "attach", !.sid = sid]]
            /\ ret' = [ret EXCEPT ![c] = Returned([status |-> "success",
                              session_id |-> sid,
                              suspended |-> IF me.is_spawn THEN "True" ELSE "False"])]
    /\ UNCHANGED <<persistent_scripts, lock_held, scripts, ncalls, histVars>>

\* lines 75-77 and 89-105: generate_session_id, create_session, detach handler
AttachCreate(c) ==
    LET me == callers[c]
        sid == me.handle
    IN
    /\ me.pc = "a_create"
    /\ create_session(sid, me.handle, sid, "None")
    /\ engine' = [engine EXCEPT ![me.handle].handler = TRUE]
    /\ IF me.has_script
       THEN /\ callers' = [callers EXCEPT ![c].pc = "e_get1", ![c].sid = sid,
                              ![c].keep_alive = TRUE, ![c].resume_after = me.is_spawn]
            /\ ret' = ret
       ELSE /\ callers' = [callers EXCEPT ![c] = [IdleCaller EXCEPT !.pc = "done",
                              !.op = "attach", !.sid = sid]]
            /\ ret' = [ret EXCEPT ![c] = Returned([status |-> "success",
                              session_id |-> sid,
                              suspended |-> IF me.is_spawn THEN "True" ELSE "False"])]
    /\ UNCHANGED <<persistent_scripts, lock_held, scripts, ncalls, histVars>>

\* --------------------------------------- session_tools._execute_script (17-145)
BeginExecute(c) ==
    /\ Len(scripts) + PendingCreates < MaxScripts
    /\ \E sid \in SessionIds, keep_alive \in BOOLEAN, resume_after \in BOOLEAN :
          Start(c, [pc |-> "e_get1", op |-> "execute", sid |-> sid,
                    keep_alive |-> keep_alive, resume_after |-> resume_after,
                    was_detached |-> (sid \in DOMAIN session_meta
                                      /\ session_meta[sid].detached)])
    /\ UNCHANGED <<regVars, lock_held, engine, scripts, histVars>>

\* state.get_session, line 39-40
GetSessionKnown(c) ==
    LET me == callers[c] IN
    /\ me.pc = "e_get1"
    /\ IF me.sid \notin DOMAIN sessions
       THEN EndCall(c, Raised("NotFound", ""))
       ELSE Goto(c, "e_get2") /\ ret' = ret
    /\ UNCHANGED <<regVars, lock_held, engine, scripts, ncalls, histVars>>

\* state.get_session, lines 41-46
GetSessionMeta(c) ==
    LET me == callers[c] IN
    /\ me.pc = "e_get2"
    /\ IF me.sid \notin DOMAIN session_meta
       THEN EndCall(c, Raised("KeyError", ""))
       ELSE IF session_meta[me.sid].detached
       THEN EndCall(c, Raised("Detached", session_meta[me.sid].detach_reason))
       ELSE Goto(c, "e_get3") /\ ret' = ret
    /\ UNCHANGED <<regVars, lock_held, engine, scripts, ncalls, histVars>>

\* state.get_session, line 47
GetSessionHandle(c) ==
    LET me == callers[c] IN
    /\ me.pc = "e_get3"
    /\ IF me.sid \notin DOMAIN sessions
       THEN EndCall(c, Raised("KeyError", ""))
       ELSE /\ callers' = [callers EXCEPT ![c].pc = "e_meta", ![c].resolved = TRUE,
                              ![c].handle = sessions[me.sid]]
            /\ ret' = ret
    /\ UNCHANGED <<regVars, lock_held, engine, scripts, ncalls, histVars>>

\* line 20: meta = state.get_session_meta(session_id), outside the try
ExecMeta(c) ==
    LET me == callers[c] IN
    /\ me.pc = "e_meta"
    /\ IF me.sid \notin DOMAIN session_meta
       THEN EndCall(c, Raised("KeyError", ""))
       ELSE Goto(c, "e_create") /\ ret' = ret
    /\ UNCHANGED <<regVars, lock_held, engine, scripts, ncalls, histVars>>

\* What the two except clauses (lines 139-145) return.
OperationError == Returned([status |-> "error", error |-> "session may be detached"])
OtherError     == Returned([status |-> "error", error |-> "exception"])
Rejection(handle) == IF Gone(handle) THEN OperationError ELSE OtherError

\* lines 56-87: create_script, script.on, and the membership test of
\* add_persistent_script (state.py line 106)
ExecCreate(c) ==
    LET me == callers[c] IN
    /\ me.pc = "e_create"
    /\ ~Gone(me.handle)
    /\ scripts' = Append(scripts, NewScript(me.handle, me.sid, me.keep_alive))
    /\ callers' = [callers EXCEPT ![c].script = Len(scripts) + 1,
                      ![c].absent = (me.sid \notin DOMAIN persistent_scripts),
                      ![c].pc = IF me.keep_alive THEN "e_add" ELSE "e_load"]
    /\ UNCHANGED <<regVars, lock_held, engine, ret, ncalls, histVars>>

\* line 56 raising: the session is gone, or the engine rejects the source
ExecCreateRejected(c) ==
    LET me == callers[c] IN
    /\ me.pc = "e_create"
    /\ EndCall(c, Rejection(me.handle))
    /\ UNCHANGED <<regVars, lock_held, engine, scripts, ncalls, histVars>>

AddPersistentScriptForgets(absent, sid, script) ==
    Put(persistent_scripts, sid, IF absent THEN <<>> ELSE persistent_scripts[sid])

\* add_persistent_script, state.py lines 107-108
add_persistent_script(absent, sid, script) ==
    Put(persistent_scripts, sid,
        Append(IF absent THEN <<>> ELSE persistent_scripts[sid], script))

ExecAdd(c) ==
    LET me == callers[c] IN
    /\ me.pc = "e_add"
    /\ IF ~me.absent /\ me.sid \notin DOMAIN persistent_scripts
       THEN /\ EndCall(c, OtherError)          \* KeyError, caught at line 144
            /\ UNCHANGED persistent_scripts
       ELSE /\ persistent_scripts' = add_persistent_script(me.absent, me.sid, me.script)
            /\ Goto(c, "e_load") /\ ret' = ret
    /\ UNCHANGED <<sessions, session_meta, script_messages, message_locks,
                   lock_held, engine, scripts, ncalls, histVars>>

\* line 89: script.load()
ExecLoad(c) ==
    LET me == callers[c] IN
    /\ me.pc = "e_load"
    /\ ~Gone(me.handle)
    /\ scripts' = [scripts EXCEPT ![me.script].state = "loaded"]
    /\ Goto(c, "e_wait")
    /\ UNCHANGED <<regVars, lock_held, engine, ret, ncalls, histVars>>

ExecLoadRejected(c) ==
    LET me == callers[c] IN
    /\ me.pc = "e_load"
    /\ EndCall(c, Rejection(me.handle))
    /\ UNCHANGED <<regVars, lock_held, engine, scripts, ncalls, histVars>>

ClassifyLast(results) ==
    IF results = <<>> THEN "timeout"
    ELSE IF results[Len(results)] = "receipt_ok" THEN "success"
    ELSE "error"

\* lines 92-120: the verdict read from initial_execution_results
Classify(results) ==
    IF results = <<>> THEN "timeout"
    ELSE IF results[1] = "receipt_ok" THEN "success"
    ELSE "error"

ClassifyError(results) ==
    IF results = <<>> THEN ""
    ELSE IF results[1] = "script_error" THEN "Script execution error"
    ELSE IF results[1] = "receipt_err" THEN "evaluation error"
    ELSE ""

ResumesWhateverStatus(me, final) == me.resume_after

\* line 128
Resumes(me, final) == me.resume_after /\ final.status = "success"

\* lines 90-126 for keep_alive: the wait ends (signal or timeout), the verdict is read
\* and script_unloaded is set to False
ExecWaitResident(c) ==
    LET me == callers[c]
        results == scripts[me.script].results
        final == Returned([status |-> Classify(results), error |-> ClassifyError(results),
                           script_unloaded |-> "False"])
    IN
    /\ me.pc = "e_wait"
    /\ me.keep_alive
    /\ IF Resumes(me, final)
       THEN /\ callers' = [callers EXCEPT ![c].pc = "e_resume", ![c].final = final]
            /\ ret' = ret
       ELSE EndCall(c, final)
    /\ UNCHANGED <<regVars, lock_held, engine, scripts, ncalls, histVars>>

\* lines 90-122 without keep_alive: the verdict is read, unload comes next
ExecWait(c) ==
    LET me == callers[c]
        results == scripts[me.script].results
        final == Returned([status |-> Classify(results), error |-> ClassifyError(results)])
    IN
    /\ me.pc = "e_wait"
    /\ ~me.keep_alive
    /\ callers' = [callers EXCEPT ![c].pc = "e_unload", ![c].final = final]
    /\ UNCHANGED <<regVars, lock_held, engine, scripts, ret, ncalls, histVars>>

ExecUnloadLeavesLoaded(c) ==
    LET me == callers[c]
        final == [me.final EXCEPT !.script_unloaded = "True"]
    IN
    /\ me.pc = "e_unload"
    /\ ~Gone(me.handle)
    /\ scripts' = scripts
    /\ IF Resumes(me, final)
       THEN /\ callers' = [callers EXCEPT ![c].pc = "e_resume", ![c].final = final]
            /\ ret' = ret
       ELSE EndCall(c, final)
    /\ UNCHANGED <<regVars, lock_held, engine, ncalls, histVars>>

\* lines 123-124: script.unload() and script_unloaded = True
ExecUnload(c) ==
    LET me == callers[c]
        final == [me.final EXCEPT !.script_unloaded = "True"]
    IN
    /\ me.pc = "e_unload"
    /\ ~Gone(me.handle)
    /\ scripts' = [scripts EXCEPT ![me.script].state = "unloaded"]
    /\ IF Resumes(me, final)
       THEN /\ callers' = [callers EXCEPT ![c].pc = "e_resume", ![c].final = final]
            /\ ret' = ret
       ELSE EndCall(c, final)
    /\ UNCHANGED <<regVars, lock_held, engine, ncalls, histVars>>

\* line 123 raising: the verdict is lost to the except clauses
ExecUnloadRejected(c) ==
    LET me == callers[c] IN
    /\ me.pc = "e_unload"
    /\ EndCall(c, Rejection(me.handle))
    /\ UNCHANGED <<regVars, lock_held, engine, scripts, ncalls, histVars>>

\* lines 128-132: device.resume(pid) succeeds
ExecResume(c) ==
    LET me == callers[c] IN
    /\ me.pc = "e_resume"
    /\ engine[me.handle].state # "dead"
    /\ engine' = [engine EXCEPT ![me.handle].suspended = FALSE]
    /\ attempted' = attempted \cup {<<"resume", me.handle, ncalls>>}
    /\ EndCall(c, [me.final EXCEPT !.resumed = "True"])
    /\ UNCHANGED <<regVars, lock_held, scripts, ncalls, appended, drained, first_reason>>

\* lines 133-135: resolve_device or device.resume raises
ExecResumeFailed(c) ==
    LET me == callers[c] IN
    /\ me.pc = "e_resume"
    /\ attempted' = attempted \cup {<<"resume", me.handle, ncalls>>,
                                     <<"resume_failed", me.handle, ncalls>>}
    /\ EndCall(c, [me.final EXCEPT !.resumed = "False", !.resume_error = "exception"])
    /\ UNCHANGED <<regVars, lock_held, engine, scripts, ncalls, appended, drained,
                   first_reason>>


\* ------------------------------------------------ session_tools.get_messages
BeginGetMessages(c) ==
    /\ \E sid \in SessionIds :
          Start(c, [pc |-> "g_has", op |-> "get_messages", sid |-> sid,
                    was_detached |-> (sid \in DOMAIN session_meta
                                      /\ session_meta[sid].detached)])
    /\ UNCHANGED <<regVars, lock_held, engine, scripts, histVars>>

\* lines 190-199: has_session, and the answer for an unknown id
GetMessagesKnown(c) ==
    LET me == callers[c] IN
    /\ me.pc = "g_has"
    /\ IF me.sid \in DOMAIN sessions
       THEN Goto(c, "g_hasq") /\ ret' = ret
       ELSE IF me.sid \in DOMAIN persistent_scripts /\ persistent_scripts[me.sid] = <<>>
       THEN Finish(c, Returned([status |-> "success"]))
       ELSE Finish(c, Raised("NotFound", ""))
    /\ UNCHANGED <<regVars, lock_held, engine, scripts, ncalls, histVars>>

\* lines 201-205: has_message_queue
GetMessagesQueue(c) ==
    LET me == callers[c] IN
    /\ me.pc = "g_hasq"
    /\ IF me.sid \in DOMAIN message_locks /\ me.sid \in DOMAIN script_messages
       THEN Goto(c, "g_lock") /\ ret' = ret
       ELSE Finish(c, Returned([status |-> "error", error |-> "Message queue not found"]))
    /\ UNCHANGED <<regVars, lock_held, engine, scripts, ncalls, histVars>>

\* drain_messages, state.py line 92
DrainLock(c) ==
    LET me == callers[c] IN
    /\ me.pc = "g_lock"
    /\ IF me.sid \in DOMAIN message_locks
       THEN Goto(c, "g_acq") /\ ret' = ret
       ELSE Finish(c, Raised("KeyError", ""))
    /\ UNCHANGED <<regVars, lock_held, engine, scripts, ncalls, histVars>>

\* "with lock": the lock can be taken when nobody holds it
LockFreeNoExclusion(sid) == TRUE

LockFree(sid) == ~lock_held[sid]

\* drain_messages, line 93
DrainAcquire(c) ==
    LET me == callers[c] IN
    /\ me.pc = "g_acq"
    /\ LockFree(me.sid)
    /\ lock_held' = [lock_held EXCEPT ![me.sid] = TRUE]
    /\ Goto(c, "g_copy")
    /\ UNCHANGED <<regVars, engine, scripts, ret, ncalls, histVars>>

\* drain_messages, line 94: messages = list(queue)
DrainCopy(c) ==
    LET me == callers[c] IN
    /\ me.pc = "g_copy"
    /\ IF me.sid \in DOMAIN script_messages
       THEN /\ callers' = [callers EXCEPT ![c].pc = "g_clear",
                              ![c].messages = script_messages[me.sid]]
            /\ UNCHANGED <<ret, lock_held>>
       ELSE /\ Finish(c, Raised("KeyError", ""))
            /\ lock_held' = [lock_held EXCEPT ![me.sid] = FALSE]
    /\ UNCHANGED <<regVars, engine, scripts, ncalls, histVars>>

\* drain_messages, lines 95-96, and get_messages lines 212-217
DrainClear(c) ==
    LET me == callers[c] IN
    /\ me.pc = "g_clear"
    /\ lock_held' = [lock_held EXCEPT ![me.sid] = FALSE]
    /\ IF me.sid \in DOMAIN script_messages
       THEN /\ script_messages' = [script_messages EXCEPT ![me.sid] = <<>>]
            /\ drained' = [drained EXCEPT ![me.sid] = @ \o me.messages]
            /\ Finish(c, Returned([status |-> "success", messages |-> me.messages,
                                   count |-> Len(me.messages)]))
       ELSE /\ Finish(c, Raised("KeyError", ""))
            /\ UNCHANGED <<script_messages, drained>>
    /\ UNCHANGED <<sessions, session_meta, message_locks, persistent_scripts,
                   engine, scripts, ncalls, appended, first_reason, attempted>>

\* ---------------------------------- session_tools.detach, state.remove_session
BeginDetach(c) ==
    /\ \E sid \in SessionIds, unload_only \in BOOLEAN :
          Start(c, [pc |-> "d_has", op |-> "detach", sid |-> sid,
                    unload_only |-> unload_only,
                    was_detached |-> (sid \in DOMAIN session_meta
                                      /\ session_meta[sid].detached)])
    /\ UNCHANGED <<regVars, lock_held, engine, scripts, histVars>>

\* lines 235-238
DetachKnown(c) ==
    LET me == callers[c] IN
    /\ me.pc = "d_has"
    /\ IF me.sid \notin DOMAIN sessions
       THEN Finish(c, Raised("NotFound", ""))
       ELSE Goto(c, IF me.unload_only THEN "u_pop" ELSE "d_meta") /\ ret' = ret
    /\ UNCHANGED <<regVars, lock_held, engine, scripts, ncalls, histVars>>

\* line 247: meta = state.get_session_meta(session_id)
DetachMeta(c) ==
    LET me == callers[c] IN
    /\ me.pc = "d_meta"
    /\ IF me.sid \notin DOMAIN session_meta
       THEN Finish(c, Raised("KeyError", ""))
       ELSE Goto(c, "u_pop") /\ ret' = ret
    /\ UNCHANGED <<regVars, lock_held, engine, scripts, ncalls, histVars>>

\* What follows the unload loop: detach returns (lines 240-245), or remove_session
\* goes on (line 138).
AfterUnload(c, count) ==
    IF callers[c].unload_only
    THEN Finish(c, Returned([status |-> "success", count |-> count]))
    ELSE /\ callers' = [callers EXCEPT ![c].pc = "r_sess", ![c].scripts = <<>>,
                           ![c].count = count]
         /\ ret' = ret

UnloadPopKeepsEntry(c) ==
    LET me == callers[c]
        popped == IF me.sid \in DOMAIN persistent_scripts
                  THEN persistent_scripts[me.sid] ELSE <<>>
    IN
    /\ me.pc = "u_pop"
    /\ persistent_scripts' = persistent_scripts
    /\ IF popped = <<>>
       THEN AfterUnload(c, 0)
       ELSE /\ callers' = [callers EXCEPT ![c].pc = "u_loop", ![c].scripts = popped,
                              ![c].popped = popped]
            /\ ret' = ret
    /\ UNCHANGED <<sessions, session_meta, script_messages, message_locks,
                   lock_held, engine, scripts, ncalls, histVars>>

\* unload_session_scripts, state.py line 123: scripts = pop(session_id, [])
UnloadPop(c) ==
    LET me == callers[c]
        popped == IF me.sid \in DOMAIN persistent_scripts
                  THEN persistent_scripts[me.sid] ELSE <<>>
    IN
    /\ me.pc = "u_pop"
    /\ persistent_scripts' = Pop(persistent_scripts, me.sid)
    /\ IF popped = <<>>
       THEN AfterUnload(c, 0)
       ELSE /\ callers' = [callers EXCEPT ![c].pc = "u_loop", ![c].scripts = popped,
                              ![c].popped = popped]
            /\ ret' = ret
    /\ UNCHANGED <<sessions, session_meta, script_messages, message_locks,
                   lock_held, engine, scripts, ncalls, histVars>>

UnloadTurnAborting(c, ok) ==
    LET me == callers[c]
        k == Head(me.scripts)
    IN
    /\ me.pc = "u_loop"
    /\ ok => ~Gone(scripts[k].session) /\ scripts[k].state # "unloaded"
    /\ scripts' = IF ok THEN [scripts EXCEPT ![k].state = "unloaded"] ELSE scripts
    /\ attempted' = attempted \cup {<<"unload", k>>}
    /\ IF ~ok
       THEN Finish(c, Raised("Exception", ""))
       ELSE IF Tail(me.scripts) = <<>>
       THEN AfterUnload(c, me.count + 1)
       ELSE /\ callers' = [callers EXCEPT ![c].scripts = Tail(me.scripts),
                              ![c].count = me.count + 1]
            /\ ret' = ret
    /\ UNCHANGED <<regVars, lock_held, engine, ncalls, appended, drained, first_reason>>

\* unload_session_scripts, lines 125-130: one turn of the loop; ok tells whether
\* script.unload() returned or raised (swallowed)
UnloadTurn(c, ok) ==
    LET me == callers[c]
        k == Head(me.scripts)
        count == IF ok THEN me.count + 1 ELSE me.count
    IN
    /\ me.pc = "u_loop"
    /\ ok => ~Gone(scripts[k].session) /\ scripts[k].state # "unloaded"
    /\ scripts' = IF ok THEN [scripts EXCEPT ![k].state = "unloaded"] ELSE scripts
    /\ attempted' = attempted \cup {<<"unload", k>>}
    /\ IF Tail(me.scripts) = <<>>
       THEN AfterUnload(c, count)
       ELSE /\ callers' = [callers EXCEPT ![c].scripts = Tail(me.scripts),
                              ![c].count = count]
            /\ ret' = ret
    /\ UNCHANGED <<regVars, lock_held, engine, ncalls, appended, drained, first_reason>>

UnloadOne(c) == UnloadTurn(c, TRUE)

UnloadOneFailed(c) == UnloadTurn(c, FALSE)

\* remove_session, lines 138-139
RemovePopSession(c) ==
    LET me == callers[c] IN
    /\ me.pc = "r_sess"
    /\ sessions' = Pop(sessions, me.sid)
    /\ callers' = [callers EXCEPT
            ![c].pc = IF me.sid \in DOMAIN sessions THEN "r_detach" ELSE "r_meta",
            ![c].handle = IF me.sid \in DOMAIN sessions THEN sessions[me.sid] ELSE 0]
    /\ UNCHANGED <<session_meta, script_messages, message_locks, persistent_scripts,
                   lock_held, engine, scripts, ret, ncalls, histVars>>

\* remove_session, lines 140-143: session.detach(), failures swallowed
RemoveDetach(c, ok) ==
    LET me == callers[c] IN
    /\ me.pc = "r_detach"
    /\ ok => ~Gone(me.handle)
    /\ engine' = IF ok THEN [engine EXCEPT ![me.handle].state = "detached"] ELSE engine
    /\ attempted' = attempted \cup {<<"detach", me.handle>>}
    /\ Goto(c, "r_meta")
    /\ UNCHANGED <<regVars, lock_held, scripts, ret, ncalls, appended, drained,
                   first_reason>>

RemoveDetachOk(c) == RemoveDetach(c, TRUE)

RemoveDetachFailed(c) == RemoveDetach(c, FALSE)

\* remove_session, lines 145-147, and detach lines 250-255
RemovePurge(c) ==
    LET me == callers[c] IN
    /\ me.pc = "r_meta"
    /\ session_meta' = Pop(session_meta, me.sid)
    /\ script_messages' = Pop(script_messages, me.sid)
    /\ message_locks' = Pop(message_locks, me.sid)
    /\ Finish(c, Returned([status |-> "success", session_id |-> me.sid]))
    /\ UNCHANGED <<sessions, persistent_scripts, lock_held, engine, scripts, ncalls,
                   histVars>>

\* ------------------------------------------------------ the engine's threads
\* The target process dies.
ProcessDies(h) ==
    /\ engine[h].state = "attached"
    /\ engine' = [engine EXCEPT ![h].state = "dead"]
    /\ UNCHANGED <<regVars, lock_held, scripts, callers, ret, ncalls, histVars>>

\* lifecycle_tools._register_detach_handler, lines 15-16: on_detached(reason, crash)
OnDetached(h, reason) ==
    /\ engine[h].handler
    /\ engine[h].state # "attached"
    /\ engine[h].notified < MaxNotify
    /\ engine' = [engine EXCEPT ![h].notified = @ + 1]
    /\ session_meta' = mark_detached(session_meta, h, reason)
    /\ first_reason' = [first_reason EXCEPT ![h] =
            IF @ = "None" /\ h \in DOMAIN session_meta THEN reason ELSE @]
    /\ callers' = [c \in Callers |->
            IF /\ callers[c].pc = "e_wait"
               /\ callers[c].handle = h
               /\ engine[h].state = "dead"
               /\ scripts[callers[c].script].results = <<>>
            THEN [callers[c] EXCEPT !.died_in_wait = TRUE]
            ELSE callers[c]]
    /\ UNCHANGED <<sessions, script_messages, message_locks, persistent_scripts,
                   lock_held, scripts, ret, ncalls, appended, drained, attempted>>

\* The message on_message is called with, for the n-th event of script k.
Event(k, n, kind) ==
    [type |-> IF kind = "error" THEN "error" ELSE "send",
     payload |-> IF kind = "error" THEN <<>> ELSE <<kind, k, n>>,
     data |-> IF kind = "send" THEN "bytes" ELSE "None"]

\* on_message, lines 63-68
IsReceipt(kind) == kind \in {"receipt_ok", "receipt_err"}
IsError(kind)   == kind = "error"

\* on_message, line 70: does the event go to the handshake?
ForHandshake(script, kind) == IsReceipt(kind) \/ (IsError(kind) /\ ~script.event_set)

\* on_message, lines 62-83, up to the lock lookup of append_message (state.py line 81)
on_message(k, kind) ==
    LET script == scripts[k]
        n == script.emitted + 1
    IN
    IF ForHandshake(script, kind)
    THEN [script EXCEPT !.emitted = n, !.event_set = TRUE,
              !.results = Append(@, IF IsReceipt(kind) THEN kind ELSE "script_error")]
    ELSE IF script.keep_alive
    THEN IF script.sid \in DOMAIN message_locks
         THEN [script EXCEPT !.emitted = n, !.cbpc = "acquire",
                   !.cbmsg = Event(k, n, kind)]
         ELSE [script EXCEPT !.emitted = n, !.cb_failed = TRUE]
    ELSE [script EXCEPT !.emitted = n]

RECURSIVE Emitted(_)
Emitted(k) == IF k = 0 THEN 0 ELSE scripts[k].emitted + Emitted(k - 1)

\* A loaded script of a live process emits an event; its callback thread runs on_message.
ScriptEmits(k, kind) ==
    /\ scripts[k].state = "loaded"
    /\ ~Gone(scripts[k].session)
    /\ scripts[k].cbpc = "idle"
    /\ Emitted(Len(scripts)) < MaxEvents
    /\ scripts' = [scripts EXCEPT ![k] = [on_message(k, kind) EXCEPT
                                             !.hist = Append(@, kind)]]
    /\ UNCHANGED <<regVars, lock_held, engine, callers, ret, ncalls, histVars>>

\* append_message, state.py line 82: with lock
AppendAcquire(k) ==
    /\ scripts[k].cbpc = "acquire"
    /\ LockFree(scripts[k].sid)
    /\ lock_held' = [lock_held EXCEPT ![scripts[k].sid] = TRUE]
    /\ scripts' = [scripts EXCEPT ![k].cbpc = "locked"]
    /\ UNCHANGED <<regVars, engine, callers, ret, ncalls, histVars>>

\* append_message, lines 83-87, and the release of the lock
AppendLocked(k) ==
    LET sid == scripts[k].sid IN
    /\ scripts[k].cbpc = "locked"
    /\ lock_held' = [lock_held EXCEPT ![sid] = FALSE]
    /\ IF sid \in DOMAIN script_messages
       THEN /\ script_messages' = [script_messages EXCEPT
                                      ![sid] = AppendTrim(@, scripts[k].cbmsg)]
            /\ appended' = [appended EXCEPT ![sid] = Append(@, scripts[k].cbmsg)]
            /\ scripts' = [scripts EXCEPT ![k].cbpc = "idle", ![k].cbmsg = <<>>]
       ELSE /\ scripts' = [scripts EXCEPT ![k].cbpc = "idle", ![k].cbmsg = <<>>,
                                          ![k].cb_failed = TRUE]
            /\ UNCHANGED <<script_messages, appended>>
    /\ UNCHANGED <<sessions, session_meta, message_locks, persistent_scripts,
                   engine, callers, ret, ncalls, drained, first_reason, attempted>>

\* ------------------------------------------------------------------- Next
EngineStep ==
    \/ \E h \in 1..Len(engine) : ProcessDies(h)
    \/ \E h \in 1..Len(engine), reason \in Reasons : OnDetached(h, reason)
    \/ \E k \in 1..Len(scripts), kind \in EventKinds : ScriptEmits(k, kind)
    \/ \E k \in 1..Len(scripts) : AppendAcquire(k)
    \/ \E k \in 1..Len(scripts) : AppendLocked(k)

\* One tool call at a time; the engine's threads run alongside it.
Alone(c) == \A d \in Callers \ {c} : Free(d)

CallerStep(c) ==
    \/ Alone(c) /\ AttachTarget(c)
    \/ Alone(c) /\ AttachRejected(c)
    \/ Alone(c) /\ AttachFailed(c)
    \/ Alone(c) /\ AttachCreate(c)
    \/ Alone(c) /\ BeginExecute(c)
    \/ Alone(c) /\ GetSessionKnown(c)
    \/ Alone(c) /\ GetSessionMeta(c)
    \/ Alone(c) /\ GetSessionHandle(c)
    \/ Alone(c) /\ ExecMeta(c)
    \/ Alone(c) /\ ExecCreate(c)
    \/ Alone(c) /\ ExecCreateRejected(c)
    \/ Alone(c) /\ ExecAdd(c)
    \/ Alone(c) /\ ExecLoad(c)
    \/ Alone(c) /\ ExecLoadRejected(c)
    \/ Alone(c) /\ ExecWaitResident(c)
    \/ Alone(c) /\ ExecWait(c)
    \/ Alone(c) /\ ExecUnload(c)
    \/ Alone(c) /\ ExecUnloadRejected(c)
    \/ Alone(c) /\ ExecResume(c)
    \/ Alone(c) /\ ExecResumeFailed(c)
    \/ Alone(c) /\ BeginGetMessages(c)
    \/ Alone(c) /\ GetMessagesKnown(c)
    \/ Alone(c) /\ GetMessagesQueue(c)
    \/ Alone(c) /\ DrainLock(c)
    \/ Alone(c) /\ DrainAcquire(c)
    \/ Alone(c) /\ DrainCopy(c)
    \/ Alone(c) /\ DrainClear(c)
    \/ Alone(c) /\ BeginDetach(c)
    \/ Alone(c) /\ DetachKnown(c)
    \/ Alone(c) /\ DetachMeta(c)
    \/ Alone(c) /\ UnloadPop(c)
    \/ Alone(c) /\ UnloadOne(c)
    \/ Alone(c) /\ UnloadOneFailed(c)
    \/ Alone(c) /\ RemovePopSession(c)
    \/ Alone(c) /\ RemoveDetachOk(c)
    \/ Alone(c) /\ RemoveDetachFailed(c)
    \/ Alone(c) /\ RemovePurge(c)

Next == (\E c \in Callers : CallerStep(c)) \/ EngineStep

Spec == Init /\ [][Next]_vars

\* Tool calls on concurrent caller threads, against a session attach has registered.
Attached ==
    /\ sessions = (1 :> 1)
    /\ session_meta = (1 :> [pid |-> 1, device_id |-> "None", detached |-> FALSE,
                             detach_reason |-> "None"])
    /\ script_messages = (1 :> <<>>)
    /\ message_locks = (1 :> 1)
    /\ persistent_scripts = EmptyDict
    /\ lock_held = [s \in SessionIds |-> FALSE]
    /\ engine = <<[NewSession(FALSE) EXCEPT !.handler = TRUE]>>
    /\ scripts = <<>>
    /\ callers = [c \in Callers |->
            IF c = 1 THEN [IdleCaller EXCEPT !.pc = "done", !.op = "attach", !.sid = 1]
            ELSE IdleCaller]
    /\ ret = [c \in Callers |->
            IF c = 1 THEN Returned([status |-> "success", session_id |-> 1,
                                    suspended |-> "False"])
            ELSE NoResult]
    /\ ncalls = 1
    /\ appended = [s \in SessionIds |-> <<>>]
    /\ drained = [s \in SessionIds |-> <<>>]
    /\ first_reason = [s \in SessionIds |-> "None"]
    /\ attempted = {}

ConcCallerStep(c) ==
    \/ BeginExecute(c)
    \/ GetSessionKnown(c)
    \/ GetSessionMeta(c)
    \/ GetSessionHandle(c)
    \/ ExecMeta(c)
    \/ ExecCreate(c)
    \/ ExecCreateRejected(c)
    \/ ExecAdd(c)
    \/ ExecLoad(c)
    \/ ExecLoadRejected(c)
    \/ ExecWaitResident(c)
    \/ ExecWait(c)
    \/ ExecUnload(c)
    \/ ExecUnloadRejected(c)
    \/ ExecResume(c)
    \/ ExecResumeFailed(c)
    \/ BeginGetMessages(c)
    \/ GetMessagesKnown(c)
    \/ GetMessagesQueue(c)
    \/ DrainLock(c)
    \/ DrainAcquire(c)
    \/ DrainCopy(c)
    \/ DrainClear(c)
    \/ BeginDetach(c)
    \/ DetachKnown(c)
    \/ DetachMeta(c)
    \/ UnloadPop(c)
    \/ UnloadOne(c)
    \/ UnloadOneFailed(c)
    \/ RemovePopSession(c)
    \/ RemoveDetachOk(c)
    \/ RemoveDetachFailed(c)
    \/ RemovePurge(c)

NextConc == (\E c \in Callers : ConcCallerStep(c)) \/ EngineStep

SpecConc == Attached /\ [][NextConc]_vars

\* ------------------------------------- the queue store alone (state.py 79-96)
\* append_message as one call of one thread
QueueAppend(sid) ==
    /\ callers[1].op # "drain"
    /\ Len(appended[sid]) < MaxAppends
    /\ sid \in DOMAIN message_locks /\ sid \in DOMAIN script_messages
    /\ LockFree(sid)
    /\ script_messages' = [script_messages EXCEPT
            ![sid] = AppendTrim(@, Event(0, Len(appended[sid]) + 1, "send"))]
    /\ appended' = [appended EXCEPT
            ![sid] = Append(@, Event(0, Len(appended[sid]) + 1, "send"))]
    /\ UNCHANGED <<sessions, session_meta, message_locks, persistent_scripts, lock_held,
                   engine, scripts, callers, ret, ncalls, drained, first_reason,
                   attempted>>

\* drain_messages as one call of one thread
QueueDrain(sid) ==
    /\ callers[1].op # "drain"
    /\ sid \in DOMAIN message_locks /\ sid \in DOMAIN script_messages
    /\ LockFree(sid)
    /\ script_messages' = [script_messages EXCEPT ![sid] = <<>>]
    /\ drained' = [drained EXCEPT ![sid] = @ \o script_messages[sid]]
    /\ callers' = [callers EXCEPT ![1] =
            [IdleCaller EXCEPT !.pc = "done", !.op = "drain", !.sid = sid]]
    /\ ret' = [ret EXCEPT ![1] = Returned([messages |-> script_messages[sid],
                                           count |-> Len(script_messages[sid])])]
    /\ UNCHANGED <<sessions, session_meta, message_locks, persistent_scripts, lock_held,
                   engine, scripts, ncalls, appended, first_reason, attempted>>

NextQueue == \E sid \in SessionIds : QueueAppend(sid) \/ QueueDrain(sid)

SpecQueue == Attached /\ [][NextQueue]_vars

\* ================================================================== claims
Done(c, op) == callers[c].pc = "done" /\ callers[c].op = op

LastN(seq, n) == IF Len(seq) <= n THEN seq ELSE SubSeq(seq, Len(seq) - n + 1, Len(seq))

\* C1: a queue never holds more than MAX_MESSAGES entries, and a drain that follows
\* N appends returns the last min(N, MAX_MESSAGES) messages appended, in their order
\* (the oldest are the ones evicted).
C1_QueueCappedFifo ==
    /\ \A s \in DOMAIN script_messages : Len(script_messages[s]) <= MAX_MESSAGES
    /\ Done(1, "drain") =>
          ret[1].messages = LastN(appended[callers[1].sid], MAX_MESSAGES)

C1_Witness ==
    /\ Done(1, "drain")
    /\ Len(appended[callers[1].sid]) > MAX_MESSAGES
    /\ Len(ret[1].messages) = MAX_MESSAGES

\* C2: with a callback thread appending while a caller drains, the messages drained
\* so far followed by the messages still queued are exactly the messages appended, in
\* arrival order: none is lost, none is returned twice.
C2_DrainAtomic ==
    \A s \in DOMAIN script_messages : drained[s] \o script_messages[s] = appended[s]

C2_Witness ==
    \E c \in Callers, k \in 1..Len(scripts) :
        /\ callers[c].pc = "g_clear"
        /\ callers[c].messages # <<>>
        /\ scripts[k].cbpc = "acquire"
        /\ scripts[k].sid = callers[c].sid

\* C3: once a session is marked detached, a get on its id fails with Detached and
\* carries the reason given by the first mark_detached.
C3_DetachedKeepsFirstReason ==
    \A c \in Callers :
        (callers[c].pc = "done" /\ callers[c].op \in {"execute", "attach"}
            /\ ret[c].kind = "raise" /\ ret[c].exc = "Detached")
        => ret[c].reason = first_reason[callers[c].sid]

\* C4: an execute without keep_alive that resolved its session returns
\* script_unloaded = True and has unloaded its script, whatever the outcome.
C4_NotKeptAliveIsUnloaded ==
    \A c \in Callers :
        (Done(c, "execute") /\ ~callers[c].keep_alive /\ callers[c].resolved
            /\ ret[c].kind = "return")
        => /\ ret[c].script_unloaded = "True"
           /\ callers[c].script # 0
           /\ scripts[callers[c].script].state = "unloaded"

\* C5: when execute with keep_alive returns success, its script is in the resident
\* list of its session.
C5_SuccessIsResident ==
    \A c \in Callers :
        (Done(c, "execute") /\ callers[c].keep_alive /\ ret[c].kind = "return"
            /\ ret[c].status = "success")
        => /\ callers[c].sid \in DOMAIN persistent_scripts
           /\ \E i \in 1..Len(persistent_scripts[callers[c].sid]) :
                 persistent_scripts[callers[c].sid][i] = callers[c].script

\* C6: an execute whose target died, with the detach notification delivered, while it
\* was blocked in the handshake wait returns status error saying the session may be
\* detached, for either keep_alive, and the session is then marked detached.
C6_DiedInWaitIsError ==
    \A c \in Callers :
        (Done(c, "execute") /\ callers[c].died_in_wait)
        => /\ ret[c].kind = "return"
           /\ ret[c].status = "error"
           /\ ret[c].error = "session may be detached"
           /\ callers[c].sid \in DOMAIN session_meta
                 => session_meta[callers[c].sid].detached

\* C7: an execute that resolved its session ends with a structured result whose
\* status is success, error or timeout; no fault escapes it as an exception.
C7_ExecuteReturnsResult ==
    \A c \in Callers :
        (Done(c, "execute") /\ callers[c].resolved)
        => /\ ret[c].kind = "return"
           /\ ret[c].status \in {"success", "error", "timeout"}

\* C8: against a session already marked detached, no execute, no get_messages and no
\* detach(unload_only=True) succeeds.
C8_DetachedIsTerminal ==
    \A c \in Callers :
        (/\ callers[c].pc = "done"
         /\ callers[c].was_detached
         /\ \/ callers[c].op \in {"execute", "get_messages"}
            \/ callers[c].op = "detach" /\ callers[c].unload_only)
        => ~(ret[c].kind = "return" /\ ret[c].status = "success")

Elements(seq) == {seq[i] : i \in 1..Len(seq)}

\* C9: when remove (detach without unload_only) returns, the id has no handle, no
\* metadata, no queue, no lock and no resident-script entry, unload was attempted on
\* every script that was resident and detach was attempted on the handle, whichever of
\* these engine operations failed.
C9_RemoveIsTotal ==
    \A c \in Callers :
        (Done(c, "detach") /\ ~callers[c].unload_only
            /\ ret[c].exc \notin {"NotFound", "KeyError"})   \* remove_session was entered
        => /\ ret[c].kind = "return" /\ ret[c].status = "success"
           /\ callers[c].sid \notin DOMAIN sessions
           /\ callers[c].sid \notin DOMAIN session_meta
           /\ callers[c].sid \notin DOMAIN script_messages
           /\ callers[c].sid \notin DOMAIN message_locks
           /\ callers[c].sid \notin DOMAIN persistent_scripts
           /\ \A k \in Elements(callers[c].popped) : <<"unload", k>> \in attempted
           /\ <<"detach", callers[c].handle>> \in attempted

C9_Witness ==
    \E c \in Callers :
        /\ Done(c, "detach") /\ ~callers[c].unload_only /\ ret[c].kind = "return"
        /\ Len(callers[c].popped) = 2
        /\ scripts[callers[c].popped[1]].state = "loaded"
        /\ scripts[callers[c].popped[2]].state = "unloaded"
        /\ engine[callers[c].handle].state = "attached"

\* C10: every step of detach(unload_only=True) leaves the handles, the metadata, the
\* queues, the locks and the engine's sessions as they were and touches no other
\* session's resident scripts; when it returns, the session has no resident-script
\* entry and is still registered. detach on an unknown id raises and changes nothing.
C10_UnloadOnlyFrame ==
    [][\A c \in Callers :
        (callers[c].op = "detach" /\ callers[c].pc \in {"d_has", "u_pop", "u_loop"}
            /\ callers'[c] # callers[c])
        => /\ callers[c].unload_only =>
                 /\ sessions' = sessions /\ session_meta' = session_meta
                 /\ script_messages' = script_messages /\ message_locks' = message_locks
                 /\ engine' = engine
                 /\ persistent_scripts' \in
                        {persistent_scripts, Pop(persistent_scripts, callers[c].sid)}
                 /\ ret'[c].kind = "return" =>
                        /\ ret'[c].status = "success"
                        /\ callers[c].sid \notin DOMAIN persistent_scripts'
                        /\ callers[c].sid \in DOMAIN sessions'
           /\ ret'[c].kind = "raise" =>
                 /\ callers[c].sid \notin DOMAIN sessions
                 /\ ret'[c].exc = "NotFound"
                 /\ UNCHANGED <<regVars, lock_held, engine, scripts>>
      ]_vars

C10_Witness ==
    \E c \in Callers :
        /\ Done(c, "detach") /\ callers[c].unload_only /\ ret[c].kind = "return"
        /\ ret[c].count >= 1
        /\ callers[c].sid \in DOMAIN session_meta
        /\ ~session_meta[callers[c].sid].detached
        /\ script_messages[callers[c].sid] # <<>>

\* C11: on the step where attach returns, resume has been called on its target only
\* if the target was spawned, a script was supplied and the script's status is
\* success; an attach to a pid has not resumed and reports suspended False; a spawn
\* without script reports success with suspended True, has registered a live session
\* with an empty queue and has not resumed.
C11_AttachResumesOnlyAfterSuccess ==
    [][\A c \in Callers :
        (callers[c].op = "attach" /\ callers[c].pc # "done" /\ callers'[c].pc = "done")
        => LET me == callers[c]
               resumed == \E n \in 1..ncalls : <<"resume", me.handle, n>> \in attempted'
           IN  /\ resumed => /\ me.is_spawn /\ me.has_script
                              /\ ret'[c].status = "success"
               /\ (~me.is_spawn /\ ret'[c].session_id # 0)
                      => ~resumed /\ ret'[c].suspended = "False"
               /\ (me.is_spawn /\ ~me.has_script /\ me.pc = "a_create")
                      => /\ ~resumed
                         /\ ret'[c].status = "success" /\ ret'[c].suspended = "True"
                         /\ ret'[c].session_id \notin DOMAIN sessions
                         /\ ret'[c].session_id \in DOMAIN sessions'
                         /\ ~session_meta'[ret'[c].session_id].detached
                         /\ script_messages'[ret'[c].session_id] = <<>>
                         /\ engine'[me.handle].suspended
      ]_vars

C11_Witness ==
    \E c \in Callers :
        /\ Done(c, "attach") /\ ret[c].status = "success"
        /\ ret[c].resumed = "True" /\ ret[c].suspended = "False"
        /\ engine[callers[c].handle].spawned
        /\ <<"resume", callers[c].handle, ncalls>> \in attempted

\* C12: on the step where _execute_script returns, resume has been tried only if
\* resume_after was set and the status is success (an error or timeout result carries
\* no resumed field and no resume was tried); a resume that fails leaves the status
\* success, sets resumed False and a resume_error, and changes neither script_unloaded
\* nor the scripts nor the resident lists.
C12_ResumeOnlyOnSuccess ==
    [][\A c \in Callers :
        (callers[c].op \in {"execute", "attach"} /\ callers[c].pc \in
              {"e_wait", "e_unload", "e_resume", "e_create", "e_add", "e_load"}
            /\ callers'[c].pc = "done" /\ ret'[c].kind = "return")
        => LET me == callers[c]
               tried == <<"resume", me.handle, ncalls>> \in attempted'
               failed == <<"resume_failed", me.handle, ncalls>> \in attempted'
           IN  /\ (tried \/ ret'[c].resumed # "unset")
                     => /\ me.resume_after /\ ret'[c].status = "success"
                        /\ me.pc = "e_resume"
               /\ ret'[c].status \in {"error", "timeout"}
                     => ~tried /\ ret'[c].resumed = "unset"
               /\ failed
                     => /\ tried
                        /\ ret'[c].status = "success"
                        /\ ret'[c].resumed = "False" /\ ret'[c].resume_error # ""
                        /\ ret'[c].script_unloaded = me.final.script_unloaded
                        /\ scripts' = scripts
                        /\ persistent_scripts' = persistent_scripts
      ]_vars

C12_Witness ==
    \E c \in Callers :
        /\ Done(c, "execute") /\ ret[c].status = "success"
        /\ ret[c].resumed = "False" /\ ret[c].resume_error # ""
        /\ ret[c].script_unloaded = "True"
        /\ scripts[callers[c].script].state = "unloaded"
        /\ <<"resume_failed", callers[c].handle, ncalls>> \in attempted

Qualifies(kind) == kind \in {"receipt_ok", "receipt_err", "error"}

FirstQualifying(hist) ==
    IF \E n \in 1..Len(hist) : Qualifies(hist[n])
    THEN CHOOSE n \in 1..Len(hist) :
            Qualifies(hist[n]) /\ \A m \in 1..(n - 1) : ~Qualifies(hist[m])
    ELSE 0

Expected(hist) ==
    IF FirstQualifying(hist) = 0 THEN "timeout"
    ELSE IF hist[FirstQualifying(hist)] = "receipt_ok" THEN "success"
    ELSE "error"

\* The status a caller carries after a step: returned, or held in final_result.
StatusHeld(c) == IF callers[c].pc = "done" THEN ret[c].status ELSE callers[c].final.status

\* C14: when the handshake wait of _execute_script ends, the status is the one of the
\* first qualifying event among the events that arrived, in whatever order receipts
\* and engine errors came (timeout when none did); events arriving afterwards change
\* nothing: the result built at line 137 carries that same status.
C14_FirstWriterWins ==
    [][\A c \in Callers :
        LET me == callers[c] IN
        /\ (me.pc = "e_wait" /\ callers'[c].pc # "e_wait")
              => StatusHeld(c)' = Expected(scripts[me.script].hist)
        /\ (me.pc \in {"e_unload", "e_resume"} /\ callers'[c].pc # me.pc
                /\ (callers'[c].pc = "done" => ret'[c].script_unloaded # "unset"))
              => StatusHeld(c)' = me.final.status
      ]_vars

C14_Witness ==
    \E c \in Callers :
        /\ Done(c, "execute") /\ ret[c].kind = "return" /\ ret[c].status = "error"
        /\ ret[c].script_unloaded = "True"
        /\ scripts[callers[c].script].hist = <<"error", "receipt_ok">>
        /\ scripts[callers[c].script].results = <<"script_error", "receipt_ok">>

\* The callbacks of script k are at rest: no append of its events is in flight.
AtRest(k) == scripts[k].cbpc = "idle"

\* C15: for a keep_alive script, every receipt after the first has been appended to
\* the queue of the script's session once the callback has run.
C15_LaterReceiptsQueued ==
    \A k \in 1..Len(scripts) :
        (scripts[k].keep_alive /\ AtRest(k))
        => \A n \in 1..Len(scripts[k].hist) :
              (/\ IsReceipt(scripts[k].hist[n])
               /\ \E m \in 1..(n - 1) : IsReceipt(scripts[k].hist[m]))
              => Event(k, n, scripts[k].hist[n]) \in Elements(appended[scripts[k].sid])

\* C16: once the callbacks are at rest, the events of a keep_alive script other than
\* its handshake outcome are in the queue history of its session, verbatim and in
\* emission order, and a script without keep_alive has put nothing into any queue.
C16_RoutedByKeepAlive ==
    \A k \in 1..Len(scripts) :
        AtRest(k) =>
        LET hist == scripts[k].hist
            q == FirstQualifying(hist)
            mine == SelectSeq(appended[scripts[k].sid],
                              LAMBDA m : m.payload # <<>> /\ m.payload[2] = k)
        IN  IF scripts[k].keep_alive
            THEN /\ \A n \in 1..Len(hist) :
                       n # q => Event(k, n, hist[n]) \in Elements(appended[scripts[k].sid])
                 /\ \A i, j \in 1..Len(mine) : i < j => mine[i].payload[3] < mine[j].payload[3]
            ELSE \A s \in SessionIds : \A i \in 1..Len(appended[s]) :
                       appended[s][i].payload = <<>> \/ appended[s][i].payload[2] # k

\* C17: after a keep_alive execute returned status timeout, every event its script has
\* emitted is in the queue history of the session once the callbacks are at rest
\* (none was taken as the outcome), and so is returned by the drains that follow.
C17_AfterTimeoutEventsQueued ==
    \A c \in Callers :
        (/\ Done(c, "execute") /\ callers[c].keep_alive
         /\ ret[c].kind = "return" /\ ret[c].status = "timeout"
         /\ AtRest(callers[c].script))
        => LET k == callers[c].script IN
           \A n \in 1..Len(scripts[k].hist) :
              Event(k, n, scripts[k].hist[n]) \in Elements(appended[scripts[k].sid])

\* C18: a get_session running alongside mark_detached and remove_session of its id
\* ends in one of three ways: it returns the handle, it raises NotFound, or it raises
\* Detached with a reason that was stored; and it does not return the handle of a
\* session that was marked detached before it began.
C18_GetHasThreeOutcomes ==
    \A c \in Callers :
        Done(c, "execute") =>
            /\ ~callers[c].resolved =>
                  /\ ret[c].kind = "raise"
                  /\ \/ ret[c].exc = "NotFound"
                     \/ ret[c].exc = "Detached" /\ ret[c].reason \in Reasons
            /\ callers[c].was_detached => ~callers[c].resolved

\* C19: no append_message called by the callback of a keep_alive script raises,
\* whatever remove_session, detach or drains did to the script's session.
C19_AppendNeverFails ==
    \A k \in 1..Len(scripts) : ~scripts[k].cb_failed

Resident(k) ==
    /\ scripts[k].sid \in DOMAIN persistent_scripts
    /\ k \in Elements(persistent_scripts[scripts[k].sid])

\* C20: in a keep_alive execution the callback is registered before the script is
\* made resident and the script is resident before it is loaded; when the load fails
\* execute returns status error with the script still resident; and a script made
\* resident and not loaded stays resident until a detach or remove takes it, which then
\* attempts its unload.
C20_ResidentBeforeLoad ==
    /\ \A c \in Callers :
          LET me == callers[c]
              k == me.script
          IN  /\ (me.keep_alive /\ me.pc = "e_add")
                    => /\ scripts[k].listening /\ scripts[k].state = "created"
                       /\ ~Resident(k)
              /\ (me.keep_alive /\ me.pc = "e_load")
                    => /\ scripts[k].listening /\ scripts[k].state = "created"
                       /\ Resident(k)
              /\ (me.pc = "done" /\ me.op \in {"execute", "attach"} /\ me.keep_alive
                     /\ k # 0 /\ scripts[k].state = "created")      \* the load failed
                    => /\ ret[c].kind = "return" /\ ret[c].status = "error"
                       /\ Resident(k)
    /\ \A k \in 1..Len(scripts) :
          (/\ scripts[k].keep_alive /\ scripts[k].state = "created"
           /\ \A c \in Callers : callers[c].script = k => callers[c].pc # "e_add")
          => \/ Resident(k)
             \/ <<"unload", k>> \in attempted
             \/ \E c \in Callers : callers[c].pc = "u_loop"
                                     /\ k \in Elements(callers[c].scripts)

C20_Witness ==
    \E c \in Callers, k \in 1..Len(scripts) :
        /\ Done(c, "detach") /\ ret[c].kind = "return"
        /\ k \in Elements(callers[c].popped)
        /\ scripts[k].keep_alive /\ scripts[k].state = "created"
        /\ <<"unload", k>> \in attempted

\* C21: once every call in flight has returned, each session id that has a
\* resident-script entry is a registered session.
C21_NoOrphanResidentScripts ==
    (\A c \in Callers : Free(c))
    => \A s \in DOMAIN persistent_scripts : s \in DOMAIN sessions

\* C22: when attach returns a result without session id, no session created by that
\* call is left in the registry.
C22_FailedAttachLeavesNoSession ==
    \A c \in Callers :
        (Done(c, "attach") /\ ret[c].kind = "return" /\ ret[c].session_id = 0)
        => /\ ret[c].status = "error"
           /\ callers[c].sid \notin DOMAIN sessions
           /\ callers[c].sid \notin DOMAIN session_meta

\* C23: when attach returns for a spawned target that is alive, suspended False means
\* the target has been resumed and a target still suspended is reported suspended True.
C23_SuspendedFlagAccurate ==
    \A c \in Callers :
        (/\ Done(c, "attach") /\ ret[c].kind = "return" /\ ret[c].session_id # 0
         /\ engine[sessions[ret[c].session_id]].spawned
         /\ engine[sessions[ret[c].session_id]].state = "attached")
        => (ret[c].suspended = "False") = ~engine[sessions[ret[c].session_id]].suspended

====
